---- MODULE Spec2Model ----
(***************************************************************************)
(* A model of the Base64 codec of jsoncons/jsoncons_utilities.hpp and of   *)
(* the JSONPath function table of jsoncons_ext/jsonpath/                   *)
(* jsonpath_function.hpp.                                                  *)
(*                                                                         *)
(* Characters are their codes (0..255), strings are sequences of           *)
(* characters, octets are 0..255.  C++ indices are 0-based, TLA+ sequences *)
(* 1-based: a C++ a[i] is a[i+1] here.                                     *)
(***************************************************************************)
EXTENDS Integers, Sequences, FiniteSets, TLC

VARIABLES
    build,      \* the compiler's predefined macros of this build
    op,         \* the call made last
    octets,     \* the octet buffer handed to the encoder last
    text,       \* the string handed to decode_base64
    encoded,    \* the result string the encoder appends to
    decoded,    \* what decode_base64 returned, or how it failed
    looked_up,  \* the name function_table::get was given last
    handle,     \* the function_type function_table::get returned last
    argv,       \* the vector of node-sets the functions are called on
    ret,        \* the Json the last function call returned
    ec,         \* the caller's std::error_code
    ec_entry    \* ec as it was on entry to the last call of the table

vars == <<build, op, octets, text, encoded, decoded, looked_up, handle, argv, ret, ec, ec_entry>>

----------------------------------------------------------------------------
(* Bounds of the model.                                                    *)

\* longest octet sequence handed to the encoders
MaxOctets == 4
\* longest string handed to decode_base64 directly
MaxSymbols == 5
\* most nodes in the node-set an aggregate reads
MaxNodes == 3
\* most node-sets in an argument vector
MaxArgs == 2

\* octet values the encoders are fed: all-zero, all-one and mixed bit patterns
Octets == {0, 1, 239, 254, 255}

\* characters decode_base64 is fed: 'A' (digit 0), '/' (digit 63), the pad
\* '=', and two characters outside the alphabet ('-' and 0xE9)
Symbols == {65, 47, 61, 45, 233}

\* the doubles the nodes of a node-set hold: whole numbers, on which the
\* double arithmetic of the aggregates is exact
NodeValues == {0 - 1, 0, 2, 3}

\* the node-set an argument vector carries after its first
OtherNodeSets == {<<2>>}

\* the names looked up: the seven literals, and names that differ from them
\* in case or altogether
Names == {"avg", "max", "min", "sum", "prod", "count", "tokenize",
          "MAX", "Sum", "length", ""}

\* the builds: a compiler that does not define __GNUC__, GCC 4.8, GCC 7.3
Builds ==
    { [gnuc |-> FALSE, major |-> 0, minor |-> 0],
      [gnuc |-> TRUE, major |-> 4, minor |-> 8],
      [gnuc |-> TRUE, major |-> 7, minor |-> 3] }

RECURSIVE SeqsUpTo(_, _)
SeqsUpTo(S, n) ==
    IF n = 0 THEN {<<>>}
    ELSE LET shorter == SeqsUpTo(S, n - 1)
         IN  shorter \cup {Append(s, x) : s \in {t \in shorter : Len(t) = n - 1}, x \in S}

----------------------------------------------------------------------------
(* Integer arithmetic of the C++ expressions.                              *)

RECURSIVE BitAnd(_, _)
BitAnd(a, b) ==
    IF a = 0 \/ b = 0 THEN 0
    ELSE (a % 2) * (b % 2) + 2 * BitAnd(a \div 2, b \div 2)

Shl(a, n) == a * 2^n

Shr(a, n) == a \div 2^n

\* conversion to unsigned char / uint8_t
U8(x) == x % 256

----------------------------------------------------------------------------
(* The alphabets.                                                          *)

\* "ABCDEFGHIJKLMNOPQRSTUVWXYZ" "abcdefghijklmnopqrstuvwxyz" "0123456789+/"
base64_digits ==
    [n \in 1..26 |-> 64 + n] \o [n \in 1..26 |-> 96 + n] \o
    [n \in 1..10 |-> 47 + n] \o <<43, 47>>

\* std::string(const char*): the characters before the first NUL of the
\* literal (the literal's terminating NUL is the last element of lit)
RECURSIVE string_from_literal(_)
string_from_literal(lit) ==
    IF lit = <<>> \/ Head(lit) = 0 THEN <<>>
    ELSE <<Head(lit)>> \o string_from_literal(Tail(lit))

\* the digits followed by "="
base64_alphabet == string_from_literal(base64_digits \o <<61>> \o <<0>>)

\* the digits followed by "\0"
base64url_alphabet == string_from_literal(base64_digits \o <<0>> \o <<0>>)

\* isalnum in the "C" locale, the locale a program starts in
isalnum(c) == c \in 48..57 \/ c \in 65..90 \/ c \in 97..122

\* is_base64 without the test for '/'
is_base64_no_slash(c) == isalnum(c) \/ c = 43

is_base64(c) == isalnum(c) \/ c = 43 \/ c = 47

\* std::string::npos is size_t(-1)
npos == 0 - 1

\* std::string::find(char): the 0-based position of the first c, or npos
find(str, c) ==
    IF \E n \in 1..Len(str) : str[n] = c
    THEN (CHOOSE n \in 1..Len(str) : str[n] = c /\ \A k \in 1..(n - 1) : str[k] # c) - 1
    ELSE npos

----------------------------------------------------------------------------
(* encode_base64(first, last, alphabet, result)                            *)

\* a4[0..3] of lines 77-80 (and 97-99), from a3[0..2]
encode_group(a3) ==
    << U8(Shr(BitAnd(a3[1], 252), 2)),
       U8(Shl(BitAnd(a3[1], 3), 4) + Shr(BitAnd(a3[2], 240), 4)),
       U8(Shl(BitAnd(a3[2], 15), 2) + Shr(BitAnd(a3[3], 192), 6)),
       U8(BitAnd(a3[3], 63)) >>

\* the while loop of lines 72-88: the state it leaves
RECURSIVE encode_full_groups(_, _, _, _, _, _)
encode_full_groups(xs, first, i, a3, alphabet, result) ==
    IF first > Len(xs) THEN [i |-> i, a3 |-> a3, result |-> result]
    ELSE LET b3 == [a3 EXCEPT ![i + 1] = xs[first]]
             a4 == encode_group(b3)
         IN  IF i + 1 = 3
             THEN encode_full_groups(xs, first + 1, 0, b3, alphabet,
                      result \o [n \in 1..4 |-> alphabet[a4[n] + 1]])
             ELSE encode_full_groups(xs, first + 1, i + 1, b3, alphabet, result)

\* encode_padding with while (++i < 3)
RECURSIVE encode_padding_preincrement(_, _, _)
encode_padding_preincrement(i, fill, result) ==
    IF i + 1 < 3 THEN encode_padding_preincrement(i + 1, fill, Append(result, fill))
    ELSE result

\* while (i++ < 3) result.push_back(fill), lines 108-111
RECURSIVE encode_padding(_, _, _)
encode_padding(i, fill, result) ==
    IF i < 3 THEN encode_padding(i + 1, fill, Append(result, fill))
    ELSE result

\* lines 90-113: the trailing partial group of i octets
encode_tail(i, a3, alphabet, result) ==
    LET fill == alphabet[Len(alphabet)]
        z3 == [j \in 1..3 |-> IF j - 1 >= i THEN 0 ELSE a3[j]]
        a4 == encode_group(z3)
        emitted == result \o [n \in 1..(i + 1) |-> alphabet[a4[n] + 1]]
    IN  IF i > 0
        THEN IF fill # 0 THEN encode_padding(i, fill, emitted) ELSE emitted
        ELSE result

\* a3 is written before it is read, so its initial content is immaterial
encode_base64_with(xs, alphabet, result) ==
    LET s == encode_full_groups(xs, 1, 0, <<0, 0, 0>>, alphabet, result)
    IN  encode_tail(s.i, s.a3, alphabet, s.result)

encode_base64(xs, result) == encode_base64_with(xs, base64_alphabet, result)

encode_base64url(xs, result) == encode_base64_with(xs, base64url_alphabet, result)

----------------------------------------------------------------------------
(* decode_base64(base64_string)                                            *)

\* what the caller gets when JSONCONS_ASSERT fails: no string is returned
assertion_failed == [status |-> "InvalidBase64", octets |-> <<>>]

\* decode_group with the mask of a3[1]'s low bits 0x30 instead of 0x3c
decode_group_mask(a4) ==
    << U8(Shl(a4[1], 2) + Shr(BitAnd(a4[2], 48), 4)),
       U8(Shl(BitAnd(a4[2], 15), 4) + Shr(BitAnd(a4[3], 48), 2)),
       U8(Shl(BitAnd(a4[3], 3), 6) + a4[4]) >>

\* a3[0..2] of lines 140-142 (and 159-160), from the digits a4[0..3]
decode_group(a4) ==
    << U8(Shl(a4[1], 2) + Shr(BitAnd(a4[2], 48), 4)),
       U8(Shl(BitAnd(a4[2], 15), 4) + Shr(BitAnd(a4[3], 60), 2)),
       U8(Shl(BitAnd(a4[3], 3), 6) + a4[4]) >>

\* decode_tail with the loop j < i
decode_tail_one_more(i, a4, result) ==
    LET d4 == [j \in 1..4 |-> IF j - 1 < i THEN U8(find(base64_alphabet, a4[j])) ELSE a4[j]]
        a3 == decode_group(d4)
    IN  IF i > 0
        THEN [status |-> "ok", octets |-> result \o [j \in 1..i |-> a3[j]]]
        ELSE [status |-> "ok", octets |-> result]

\* lines 152-166: the trailing group of i symbols
decode_tail(i, a4, result) ==
    LET d4 == [j \in 1..4 |-> IF j - 1 < i THEN U8(find(base64_alphabet, a4[j])) ELSE a4[j]]
        a3 == decode_group(d4)
    IN  IF i > 0
        THEN [status |-> "ok", octets |-> result \o [j \in 1..(i - 1) |-> a3[j]]]
        ELSE [status |-> "ok", octets |-> result]

\* the while loop of lines 128-150, then the tail
RECURSIVE decode_loop(_, _, _, _, _)
decode_loop(s, first, i, a4, result) ==
    IF first > Len(s) \/ s[first] = 61 THEN decode_tail(i, a4, result)
    ELSE IF ~is_base64(s[first]) THEN assertion_failed
    ELSE LET b4 == [a4 EXCEPT ![i + 1] = s[first]]
             d4 == [j \in 1..4 |-> U8(find(base64_alphabet, b4[j]))]
             a3 == decode_group(d4)
         IN  IF i + 1 = 4
             THEN decode_loop(s, first + 1, 0, d4, result \o a3)
             ELSE decode_loop(s, first + 1, i + 1, b4, result)

\* junk: the content of the uninitialized a4 on entry
decode_base64(s, junk) == decode_loop(s, 1, 0, <<junk, junk, junk, junk>>, <<>>)

----------------------------------------------------------------------------
(* Json values and error codes.                                            *)

\* a double is a fraction num/den in lowest terms, den > 0
RECURSIVE gcd(_, _)
gcd(a, b) == IF b = 0 THEN a ELSE gcd(b, a % b)

abs(a) == IF a < 0 THEN 0 - a ELSE a

fraction(n, d) ==
    LET g == gcd(abs(n), d)
    IN  [num |-> n \div g, den |-> d \div g]

\* Json(): the default-constructed value, an empty object
Json_default == [kind |-> "object", num |-> 0, den |-> 1]

\* Json(double)
Json_double(v) == [kind |-> "double", num |-> v.num, den |-> v.den]

\* Json(size_t)
Json_uinteger(n) == [kind |-> "uinteger", num |-> n, den |-> 1]

\* Json::null()
Json_null == [kind |-> "null", num |-> 0, den |-> 1]

\* Json::array() with the tokens pushed back; the tokens are not modelled
Json_array == [kind |-> "array", num |-> 0, den |-> 1]

\* std::numeric_limits<double>::max(), above every value a node holds
DBL_MAX == 1000000

\* std::numeric_limits<double>::lowest()
DBL_LOWEST == 0 - DBL_MAX

no_error == "no_error"

invalid_function_argument == "invalid_function_argument"

function_name_not_found == "function_name_not_found"

nullptr == "nullptr"

----------------------------------------------------------------------------
(* The lambdas of functions_.  Each takes the argument vector and the      *)
(* error code on entry and gives the Json returned and the error code on   *)
(* return.                                                                 *)

invalid_argument == [ret |-> Json_default, ec |-> invalid_function_argument]

\* for (node : arg.nodes()) { x = as<double>(); if (x > v) v = x; }
RECURSIVE max_loop(_, _, _)
max_loop(nodes, n, v) ==
    IF n > Len(nodes) THEN v
    ELSE max_loop(nodes, n + 1, IF nodes[n] > v THEN nodes[n] ELSE v)

\* max_lambda with the accumulator starting at 0.0
max_lambda_from_zero(args, e) ==
    IF Len(args) # 1 THEN invalid_argument
    ELSE [ret |-> Json_double(fraction(max_loop(args[1], 1, 0), 1)), ec |-> e]

max_lambda(args, e) ==
    IF Len(args) # 1 THEN invalid_argument
    ELSE [ret |-> Json_double(fraction(max_loop(args[1], 1, DBL_LOWEST), 1)), ec |-> e]

\* for (node : arg.nodes()) { x = as<double>(); if (x < v) v = x; }
RECURSIVE min_loop(_, _, _)
min_loop(nodes, n, v) ==
    IF n > Len(nodes) THEN v
    ELSE min_loop(nodes, n + 1, IF nodes[n] < v THEN nodes[n] ELSE v)

min_lambda(args, e) ==
    IF Len(args) # 1 THEN invalid_argument
    ELSE [ret |-> Json_double(fraction(min_loop(args[1], 1, DBL_MAX), 1)), ec |-> e]

\* for (node : arg.nodes()) v += as<double>();
RECURSIVE sum_loop(_, _, _)
sum_loop(nodes, n, v) ==
    IF n > Len(nodes) THEN v
    ELSE sum_loop(nodes, n + 1, v + nodes[n])

\* avg_lambda returning 0.0 for the empty node-set
avg_lambda_zero_on_empty(args, e) ==
    IF Len(args) # 1 THEN invalid_argument
    ELSE LET v == sum_loop(args[1], 1, 0)
         IN  [ret |-> IF Len(args[1]) > 0
                      THEN Json_double(fraction(v, Len(args[1])))
                      ELSE Json_double(fraction(0, 1)),
              ec |-> e]

avg_lambda(args, e) ==
    IF Len(args) # 1 THEN invalid_argument
    ELSE LET v == sum_loop(args[1], 1, 0)
         IN  [ret |-> IF Len(args[1]) > 0
                      THEN Json_double(fraction(v, Len(args[1])))
                      ELSE Json_null,
              ec |-> e]

\* sum_lambda with the test args.size() < 1
sum_lambda_at_least_one(args, e) ==
    IF Len(args) < 1 THEN invalid_argument
    ELSE [ret |-> Json_double(fraction(sum_loop(args[1], 1, 0), 1)), ec |-> e]

sum_lambda(args, e) ==
    IF Len(args) # 1 THEN invalid_argument
    ELSE [ret |-> Json_double(fraction(sum_loop(args[1], 1, 0), 1)), ec |-> e]

\* count_loop with while (count + 1 < arg.nodes().size())
RECURSIVE count_loop_short(_, _)
count_loop_short(nodes, count) ==
    IF count + 1 < Len(nodes) THEN count_loop_short(nodes, count + 1) ELSE count

\* while (count < arg.nodes().size()) ++count;
RECURSIVE count_loop(_, _)
count_loop(nodes, count) ==
    IF count < Len(nodes) THEN count_loop(nodes, count + 1) ELSE count

count_lambda(args, e) ==
    IF Len(args) # 1 THEN invalid_argument
    ELSE [ret |-> Json_uinteger(count_loop(args[1], 0)), ec |-> e]

\* prod_step that always multiplies
prod_step_multiply(v, x) == v * x

\* v == 0.0 && x != 0.0 ? (v = x) : (v *= x);
prod_step(v, x) == IF v = 0 /\ x # 0 THEN x ELSE v * x

RECURSIVE prod_loop(_, _, _)
prod_loop(nodes, n, v) ==
    IF n > Len(nodes) THEN v
    ELSE prod_loop(nodes, n + 1, prod_step(v, nodes[n]))

prod_lambda(args, e) ==
    IF Len(args) # 1 THEN invalid_argument
    ELSE [ret |-> Json_double(fraction(prod_loop(args[1], 1, 0), 1)), ec |-> e]

\* the tokens come from std::regex_token_iterator and are not modelled
tokenize_lambda(args, e) ==
    IF Len(args) # 2 THEN invalid_argument
    ELSE [ret |-> Json_array, ec |-> e]

\* the value of a macro in an #if: 0 when the macro is not defined
macro_value(defined, value) == IF defined THEN value ELSE 0

\* #if !defined(__GNUC__) && (__GNUC__ == 4 && __GNUC_MINOR__ < 9)
tokenize_guard(b) ==
    ~b.gnuc /\ (macro_value(b.gnuc, b.major) = 4 /\ macro_value(b.gnuc, b.minor) < 9)

\* the keys of functions_ in build b
functions_(b) ==
    {"max", "min", "avg", "sum", "count", "prod"}
        \cup (IF tokenize_guard(b) THEN {"tokenize"} ELSE {})

\* the call of the std::function registered under key f
call(f, args, e) ==
    CASE f = "max" -> max_lambda(args, e)
      [] f = "min" -> min_lambda(args, e)
      [] f = "avg" -> avg_lambda(args, e)
      [] f = "sum" -> sum_lambda(args, e)
      [] f = "count" -> count_lambda(args, e)
      [] f = "prod" -> prod_lambda(args, e)
      [] f = "tokenize" -> tokenize_lambda(args, e)

\* get that clears the error code when the name is found
get_clearing(b, name, e) ==
    IF name \notin functions_(b)
    THEN [ret |-> nullptr, ec |-> function_name_not_found]
    ELSE [ret |-> name, ec |-> no_error]

\* function_table::get(name, ec): the handle returned and the error code on return
get(b, name, e) ==
    IF name \notin functions_(b)
    THEN [ret |-> nullptr, ec |-> function_name_not_found]
    ELSE [ret |-> name, ec |-> e]

----------------------------------------------------------------------------
(* The inputs.                                                             *)

OctetSeqs == SeqsUpTo(Octets, MaxOctets)

Strings == SeqsUpTo(Symbols, MaxSymbols)

NodeSets == SeqsUpTo(NodeValues, MaxNodes)

\* no node-set, or a first node-set followed by up to MaxArgs - 1 others
ArgVectors ==
    {<<>>} \cup {<<ns>> \o rest : ns \in NodeSets,
                                 rest \in SeqsUpTo(OtherNodeSets, MaxArgs - 1)}

not_called == [status |-> "not_called", octets |-> <<>>]

----------------------------------------------------------------------------
(* The calls.  A behaviour is one use of the codec, or one caller of the   *)
(* function table: the inputs are the caller's and stay as Init draws      *)
(* them, the calls are applied to them.                                    *)

\* the caller of the codec holds an octet buffer or a string, and an empty
\* result string
InitCodec ==
    /\ build \in Builds
    /\ op = "none"
    /\ \/ octets \in OctetSeqs /\ text = <<>>
       \/ octets = <<>> /\ text \in Strings
    /\ encoded = <<>>
    /\ decoded = not_called
    /\ looked_up = ""
    /\ handle = nullptr
    /\ argv = <<>>
    /\ ret = Json_default
    /\ ec = no_error
    /\ ec_entry = no_error

\* the caller of the function table holds an argument vector and a
\* default-constructed std::error_code
InitTable ==
    /\ build \in Builds
    /\ op = "none"
    /\ octets = <<>>
    /\ text = <<>>
    /\ encoded = <<>>
    /\ decoded = not_called
    /\ looked_up = ""
    /\ handle = nullptr
    /\ argv \in ArgVectors
    /\ ret = Json_default
    /\ ec = no_error
    /\ ec_entry = no_error

\* encode_base64(first, last, result)
EncodeBase64 ==
    /\ op = "none"
    /\ op' = "encode_base64"
    /\ encoded' = encode_base64(octets, encoded)
    /\ UNCHANGED <<build, octets, text, decoded, looked_up, handle, argv, ret, ec, ec_entry>>

\* encode_base64url(first, last, result)
EncodeBase64Url ==
    /\ op = "none"
    /\ op' = "encode_base64url"
    /\ encoded' = encode_base64url(octets, encoded)
    /\ UNCHANGED <<build, octets, text, decoded, looked_up, handle, argv, ret, ec, ec_entry>>

\* decode_base64(text)
DecodeBase64 ==
    \E junk \in {0, 255} :
        /\ op = "none"
        /\ op' = "decode_base64"
        /\ decoded' = decode_base64(text, junk)
        /\ UNCHANGED <<build, octets, text, encoded, looked_up, handle, argv, ret, ec, ec_entry>>

\* decode_base64 of the string an encoder has just written
DecodeEncoded ==
    \E junk \in {0, 255} :
        /\ op \in {"encode_base64", "encode_base64url"}
        /\ op' = IF op = "encode_base64" THEN "decode_of_base64" ELSE "decode_of_base64url"
        /\ decoded' = decode_base64(encoded, junk)
        /\ UNCHANGED <<build, octets, text, encoded, looked_up, handle, argv, ret, ec, ec_entry>>

\* function_table::get(name, ec)
Get ==
    \E name \in Names :
        /\ op' = "get"
        /\ looked_up' = name
        /\ handle' = get(build, name, ec).ret
        /\ ec' = get(build, name, ec).ec
        /\ ec_entry' = ec
        /\ ret' = Json_default
        /\ UNCHANGED <<build, octets, text, encoded, decoded, argv>>

\* the call of the function get returned, on the argument vector
Invoke ==
    /\ handle # nullptr
    /\ op' = "invoke"
    /\ ret' = call(handle, argv, ec).ret
    /\ ec' = call(handle, argv, ec).ec
    /\ ec_entry' = ec
    /\ UNCHANGED <<build, octets, text, encoded, decoded, handle, looked_up, argv>>

NextCodec == EncodeBase64 \/ EncodeBase64Url \/ DecodeBase64 \/ DecodeEncoded

NextTable == Get \/ Invoke

SpecCodec == InitCodec /\ [][NextCodec]_vars

SpecTable == InitTable /\ [][NextTable]_vars

----------------------------------------------------------------------------
(* The properties.                                                         *)

\* the number of symbols of s before its first '=' (all of them without one)
RECURSIVE symbols_before_pad(_)
symbols_before_pad(s) ==
    IF s = <<>> \/ Head(s) = 61 THEN 0 ELSE 1 + symbols_before_pad(Tail(s))

\* the 64 digits of the standard alphabet
Digits == {base64_digits[n] : n \in 1..Len(base64_digits)}

\* C1: decode_base64 of the string encode_base64 wrote for the octets xs,
\* with the standard alphabet, returns exactly xs, whatever the length of xs.
C1_RoundTrip ==
    op = "decode_of_base64" => decoded = [status |-> "ok", octets |-> octets]

\* a round trip of four octets: a full group and a partial group of one
C1_Witness ==
    /\ op = "decode_of_base64"
    /\ Len(octets) = 4
    /\ octets[4] = 255
    /\ decoded.octets = octets

\* C2: encode_base64url emits, for n octets, four symbols per full group and
\* k + 1 symbols for a trailing group of k in {1,2} octets, nothing after
\* them, and no '='.
C2_UrlUnpadded ==
    op = "encode_base64url" =>
        /\ Len(encoded) = 4 * (Len(octets) \div 3)
                          + (IF Len(octets) % 3 = 0 THEN 0 ELSE (Len(octets) % 3) + 1)
        /\ \A n \in 1..Len(encoded) : encoded[n] # 61

\* C3: decode_base64 fails with InvalidBase64 when the number of symbols
\* before the first '=' (or the end) is 1 modulo 4.
C3_TruncatedGroupRejected ==
    (op = "decode_base64" /\ symbols_before_pad(text) % 4 = 1) =>
        decoded.status = "InvalidBase64"

\* C4: decode_base64 fails with InvalidBase64, returning no octets, exactly
\* when a character before the first '=' is none of the 64 digits of the
\* standard alphabet.
C4_InvalidSymbolRejected ==
    op = "decode_base64" =>
        IF \E n \in 1..symbols_before_pad(text) : text[n] \notin Digits
        THEN decoded = [status |-> "InvalidBase64", octets |-> <<>>]
        ELSE decoded.status = "ok"

\* a full group of digits, then a character outside the alphabet: the
\* octets of the full group are not returned
C4_Witness ==
    /\ op = "decode_base64"
    /\ Len(text) = 5
    /\ \A n \in 1..4 : text[n] \in Digits
    /\ text[5] = 45
    /\ decoded = [status |-> "InvalidBase64", octets |-> <<>>]

\* C5: get of a name that is not a key of the table (compared exactly, case
\* included) sets the error code to function_name_not_found and returns a
\* null handle; get of a key returns that key's function and leaves the
\* error code as it was on entry.
C5_Lookup ==
    op = "get" =>
        IF looked_up \in functions_(build)
        THEN handle = looked_up /\ ec = ec_entry
        ELSE handle = nullptr /\ ec = function_name_not_found

\* a key is found after a failed lookup, and the error code stays
C5_Witness ==
    /\ op = "get"
    /\ looked_up = "sum"
    /\ handle = "sum"
    /\ ec_entry = function_name_not_found
    /\ ec = function_name_not_found

\* C6: get of each of min, max, avg, sum, prod, count and tokenize returns a
\* function and does not report function_name_not_found.
C6_AllSevenRegistered ==
    (op = "get" /\ looked_up \in {"min", "max", "avg", "sum", "prod", "count", "tokenize"}) =>
        handle # nullptr /\ ec = ec_entry

\* the arity the table documents for a function
arity(f) == IF f = "tokenize" THEN 2 ELSE 1

\* C7: a registered function called with a number of node-sets other than
\* its arity sets the error code to invalid_function_argument and returns a
\* default-constructed Json; called with its arity it leaves the error code
\* as it was on entry.
C7_ArityValidation ==
    op = "invoke" =>
        IF Len(argv) # arity(handle)
        THEN ec = invalid_function_argument /\ ret = Json_default
        ELSE ec = ec_entry

\* sum called with two node-sets, the error code holding an earlier failure
C7_Witness ==
    /\ op = "invoke"
    /\ handle = "sum"
    /\ Len(argv) = 2
    /\ ec_entry = function_name_not_found
    /\ ec = invalid_function_argument
    /\ ret = Json_default

\* q holds the nodes of p in some order
IsPermutation(p, q) ==
    /\ Len(p) = Len(q)
    /\ \E f \in Permutations(1..Len(p)) : q = [n \in 1..Len(p) |-> p[f[n]]]

\* C8: each of max, min, avg, sum, count and prod returns on every
\* permutation of a node-set what it returns on the node-set.
C8_OrderInsensitive ==
    (op = "invoke" /\ Len(argv) = 1) =>
        \A q \in NodeSets :
            IsPermutation(argv[1], q) => call(handle, <<q>>, ec_entry).ret = ret

\* the product of the values of nodes
RECURSIVE product(_)
product(nodes) == IF nodes = <<>> THEN 1 ELSE Head(nodes) * product(Tail(nodes))

\* nodes from its first non-zero value on
RECURSIVE from_first_nonzero(_)
from_first_nonzero(nodes) ==
    IF nodes = <<>> \/ Head(nodes) # 0 THEN nodes ELSE from_first_nonzero(Tail(nodes))

\* the values of nodes after its last zero
RECURSIVE after_last_zero(_)
after_last_zero(nodes) ==
    IF \E n \in 1..Len(nodes) : nodes[n] = 0 THEN after_last_zero(Tail(nodes)) ELSE nodes

C10_Length ==
    op = "encode_base64" => Len(encoded) = 4 * ((Len(octets) + 2) \div 3)

\* four octets give eight symbols, the last two of them pads
C10_Witness ==
    /\ op = "encode_base64"
    /\ Len(octets) = 4
    /\ Len(encoded) = 8
    /\ encoded[7] = 61
    /\ encoded[8] = 61

\* C11: count over a single node-set returns the integer number of its
\* nodes, the empty node-set included, whatever the nodes hold.
C11_CountIdentity ==
    (op = "invoke" /\ handle = "count" /\ Len(argv) = 1) =>
        ret = [kind |-> "uinteger", num |-> Len(argv[1]), den |-> 1]

\* count over three nodes holding different values
C11_Witness ==
    /\ op = "invoke"
    /\ handle = "count"
    /\ argv = << <<3, 0, 0 - 1>> >>
    /\ ret.kind = "uinteger"
    /\ ret.num = 3

\* the sum of the values of nodes
RECURSIVE total(_)
total(nodes) == IF nodes = <<>> THEN 0 ELSE Head(nodes) + total(Tail(nodes))

\* C12: sum over a single node-set returns the sum of the node values, 0.0
\* for the empty node-set; avg returns that sum divided by the number of
\* nodes, and JSON null for the empty node-set.
C12_SumAvg ==
    (op = "invoke" /\ Len(argv) = 1) =>
        /\ handle = "sum" =>
               /\ ret = [kind |-> "double", num |-> total(argv[1]), den |-> 1]
               /\ argv[1] = <<>> => ret.num = 0
        /\ handle = "avg" =>
               IF argv[1] = <<>>
               THEN ret.kind = "null"
               ELSE /\ ret.kind = "double"
                    /\ ret.den > 0
                    /\ ret.num * Len(argv[1]) = total(argv[1]) * ret.den

\* avg over the empty node-set is null
C12_Witness ==
    /\ op = "invoke"
    /\ handle = "avg"
    /\ argv = << <<>> >>
    /\ ret.kind = "null"

\* C13: over a non-empty node-set max returns the greatest and min the
\* least of the node values, so max >= min; over the empty node-set max
\* returns the lowest finite double and min the largest.
C13_MaxMin ==
    (op = "invoke" /\ Len(argv) = 1) =>
        LET held == {argv[1][n] : n \in 1..Len(argv[1])}
        IN  /\ handle = "max" =>
                   /\ ret.kind = "double" /\ ret.den = 1
                   /\ IF held = {} THEN ret.num = 0 - DBL_MAX
                      ELSE /\ ret.num \in held
                           /\ \A x \in held : ret.num >= x
                           /\ ret.num >= min_lambda(argv, ec_entry).ret.num
            /\ handle = "min" =>
                   /\ ret.kind = "double" /\ ret.den = 1
                   /\ IF held = {} THEN ret.num = DBL_MAX
                      ELSE /\ ret.num \in held
                           /\ \A x \in held : ret.num <= x
                           /\ ret.num <= max_lambda(argv, ec_entry).ret.num

\* max over a node-set of negative values only
C13_Witness ==
    /\ op = "invoke"
    /\ handle = "max"
    /\ argv = << <<0 - 1, 0 - 1>> >>
    /\ ret.num = 0 - 1

\* the string the last decode_base64 was given
decode_input == IF op = "decode_base64" THEN text ELSE encoded

\* C14: decode_base64 reads only the m symbols before the first '='; when
\* they are all digits and m mod 4 is not 1 it returns what it returns for
\* those m symbols alone: 3 octets per full group of four and k - 1 octets
\* for a trailing group of k in {2,3} symbols.
C14_DecodedLength ==
    LET m == symbols_before_pad(decode_input)
    IN  (/\ op \in {"decode_base64", "decode_of_base64", "decode_of_base64url"}
         /\ \A n \in 1..m : decode_input[n] \in Digits
         /\ m % 4 # 1) =>
            /\ decoded.status = "ok"
            /\ Len(decoded.octets) =
                   IF m % 4 = 0 THEN (3 * m) \div 4
                   ELSE 3 * (m \div 4) + (m % 4) - 1
            /\ \A junk \in {0, 255} :
                   decoded = decode_base64(SubSeq(decode_input, 1, m), junk)

\* two digits, then '=' followed by a character outside the alphabet: one
\* octet is returned
C14_Witness ==
    /\ op = "decode_base64"
    /\ Len(text) = 4
    /\ symbols_before_pad(text) = 2
    /\ text[4] = 45
    /\ decoded.status = "ok"
    /\ Len(decoded.octets) = 1

====
